---- MODULE Spec2Model ----
(***************************************************************************)
(* A model of the HashLRU cache of src/hashlru.go: two generation maps     *)
(* (oldCache, newCache), the fill counter (size), the capacity (maxSize)   *)
(* and the optional eviction callback (onEvictedCB).                       *)
(*                                                                         *)
(* Every operation of the cache is a pure operator over a record           *)
(*   [maxSize, size, oldCache, newCache, onEvictedCB]                      *)
(* returning the record after the call together with what the call         *)
(* returned and the bag of (key, value) pairs it handed to the callback.   *)
(* The actions apply these operators to the variables.                     *)
(***************************************************************************)
EXTENDS Integers, Sequences, FiniteSets, Bags, TLC

\* Bounds of the model.
NumKeys == 3
MaxCap == 3
MaxInterleaved == 1
MaxDeficit == 2

KeySet == 1..NumKeys
\* The code never inspects a value: two values tell a fresh value from a stale one.
Vals == {1, 2}
\* The valid capacities, and the arguments handed to the constructor and to Resize
\* (0 and -1 are the invalid ones).
Caps == 1..MaxCap
CtorArgs == -1..MaxCap
ResizeArgs == -1..MaxCap

VARIABLES
    maxSize,      \* lru.maxSize
    size,         \* lru.size
    oldCache,     \* lru.oldCache : key -> value
    newCache,     \* lru.newCache : key -> value
    onEvictedCB,  \* TRUE iff lru.onEvictedCB # nil
    last,         \* the call that completed last: its arguments and results
    hist,         \* the keys Set so far, while every mutating call so far was a Set,
                  \* and their order, while every Set so far was of another key;
                  \* in a run of Set and Get calls only: the keys touched, most
                  \* recent first, and the other keys inserted since each one's touch
    rz,           \* the goroutine running Resize step by step
    ln,           \* the goroutine running Len step by step
    lk            \* the write-locked section in progress and the stores it has still to make

vars == <<maxSize, size, oldCache, newCache, onEvictedCB, last, hist, rz, ln, lk>>

----------------------------------------------------------------------------
\* Go maps as functions with a finite domain.

EmptyMap == [k \in {} |-> 0]

PutMap(m, k, v) == [x \in (DOMAIN m) \cup {k} |-> IF x = k THEN v ELSE m[x]]

DelMap(m, k) == [x \in (DOMAIN m) \ {k} |-> m[x]]

\* The (key, value) pairs a `range m` loop visits, as a bag.
MapBag(m) == SetToBag({<<k, m[k]>> : k \in DOMAIN m})

\* Every order in which a `range` loop may visit the key set S.
RECURSIVE Orders(_)
Orders(S) ==
    IF S = {} THEN {<<>>}
    ELSE UNION {{<<x>> \o o : o \in Orders(S \ {x})} : x \in S}

Min(a, b) == IF a <= b THEN a ELSE b

Max(a, b) == IF a >= b THEN a ELSE b

\* The cache as one record.
lru ==
    [maxSize |-> maxSize, size |-> size, oldCache |-> oldCache,
     newCache |-> newCache, onEvictedCB |-> onEvictedCB]

\* What the callback receives for the bag of pairs b: nothing when it is nil.
Notify(c, b) == IF c.onEvictedCB THEN b ELSE EmptyBag

----------------------------------------------------------------------------
\* The nil *HashLRU the constructor returns with its error: no store. A store has
\* maxSize > 0, so the record of zero values stands for nil without ambiguity.
NilStore ==
    [maxSize |-> 0, size |-> 0, oldCache |-> EmptyMap,
     newCache |-> EmptyMap, onEvictedCB |-> FALSE]

\* NewHLRU / NewWithEvict: (nil, error) for maxSize <= 0, else the empty store.
NewWithEvict(cap, cb) ==
    IF cap <= 0
    THEN [c |-> NilStore, err |-> TRUE]
    ELSE [c |-> [maxSize |-> cap, size |-> 0, oldCache |-> EmptyMap,
                 newCache |-> EmptyMap, onEvictedCB |-> cb],
          err |-> FALSE]

\* A plausible slip: the rotation drops newCache instead of copying it to oldCache.
updateDropsNew(c, key, value) ==
    LET n1 == PutMap(c.newCache, key, value)
        s1 == c.size + 1
    IN  IF s1 >= c.maxSize
        THEN [c  |-> [c EXCEPT !.size = 0, !.oldCache = EmptyMap, !.newCache = EmptyMap],
              ev |-> Notify(c, MapBag(c.oldCache)), rot |-> TRUE]
        ELSE [c  |-> [c EXCEPT !.size = s1, !.newCache = n1],
              ev |-> EmptyBag, rot |-> FALSE]

\* A plausible slip: the rotation test is > instead of >=.
updateLateRotation(c, key, value) ==
    LET n1 == PutMap(c.newCache, key, value)
        s1 == c.size + 1
    IN  IF s1 > c.maxSize
        THEN [c  |-> [c EXCEPT !.size = 0, !.oldCache = n1, !.newCache = EmptyMap],
              ev |-> Notify(c, MapBag(c.oldCache)), rot |-> TRUE]
        ELSE [c  |-> [c EXCEPT !.size = s1, !.newCache = n1],
              ev |-> EmptyBag, rot |-> FALSE]

\* update: insert into newCache, count it, rotate when size reaches maxSize. rot tells
\* whether the rotation branch ran.
update(c, key, value) ==
    LET n1 == PutMap(c.newCache, key, value)
        s1 == c.size + 1
    IN  IF s1 >= c.maxSize
        THEN [c  |-> [c EXCEPT !.size = 0, !.oldCache = n1, !.newCache = EmptyMap],
              ev |-> Notify(c, MapBag(c.oldCache)), rot |-> TRUE]
        ELSE [c  |-> [c EXCEPT !.size = s1, !.newCache = n1],
              ev |-> EmptyBag, rot |-> FALSE]

\* A plausible slip: Set calls update without looking the key up in newCache.
SetAlwaysUpdates(c, key, value) == update(c, key, value)

\* Set: overwrite in newCache, else update.
Set(c, key, value) ==
    IF key \in DOMAIN c.newCache
    THEN [c |-> [c EXCEPT !.newCache = PutMap(c.newCache, key, value)], ev |-> EmptyBag,
          rot |-> FALSE]
    ELSE update(c, key, value)

\* A plausible slip: an oldCache hit returns the value without promoting it.
GetWithoutPromotion(c, key) ==
    IF key \in DOMAIN c.newCache
    THEN [c |-> c, val |-> c.newCache[key], found |-> TRUE, ev |-> EmptyBag, rot |-> FALSE]
    ELSE IF key \in DOMAIN c.oldCache
    THEN [c |-> c, val |-> c.oldCache[key], found |-> TRUE, ev |-> EmptyBag, rot |-> FALSE]
    ELSE [c |-> c, val |-> 0, found |-> FALSE, ev |-> EmptyBag, rot |-> FALSE]

\* A plausible slip: the promotion forgets delete(lru.oldCache, key).
GetKeepsOld(c, key) ==
    IF key \in DOMAIN c.newCache
    THEN [c |-> c, val |-> c.newCache[key], found |-> TRUE, ev |-> EmptyBag, rot |-> FALSE]
    ELSE IF key \in DOMAIN c.oldCache
    THEN LET u == update(c, key, c.oldCache[key])
         IN  [c |-> u.c, val |-> c.oldCache[key], found |-> TRUE, ev |-> u.ev, rot |-> u.rot]
    ELSE [c |-> c, val |-> 0, found |-> FALSE, ev |-> EmptyBag, rot |-> FALSE]

\* Get: newCache hit, else oldCache hit with promotion through update, else miss.
\* val 0 stands for nil.
Get(c, key) ==
    IF key \in DOMAIN c.newCache
    THEN [c |-> c, val |-> c.newCache[key], found |-> TRUE, ev |-> EmptyBag, rot |-> FALSE]
    ELSE IF key \in DOMAIN c.oldCache
    THEN LET u == update([c EXCEPT !.oldCache = DelMap(c.oldCache, key)], key, c.oldCache[key])
         IN  [c |-> u.c, val |-> c.oldCache[key], found |-> TRUE, ev |-> u.ev, rot |-> u.rot]
    ELSE [c |-> c, val |-> 0, found |-> FALSE, ev |-> EmptyBag, rot |-> FALSE]

\* Peek: newCache first, then oldCache; <<value, found>>.
Peek(c, key) ==
    IF key \in DOMAIN c.newCache THEN <<c.newCache[key], TRUE>>
    ELSE IF key \in DOMAIN c.oldCache THEN <<c.oldCache[key], TRUE>>
    ELSE <<0, FALSE>>

\* Has: the key is in either map.
Has(c, key) == (key \in DOMAIN c.newCache) \/ (key \in DOMAIN c.oldCache)

\* A plausible slip: the newCache branch forgets size--.
RemoveKeepsSize(c, key) ==
    IF key \in DOMAIN c.newCache
    THEN [c   |-> [c EXCEPT !.newCache = DelMap(c.newCache, key)],
          ret |-> TRUE,
          ev  |-> Notify(c, SetToBag({<<key, c.newCache[key]>>}))]
    ELSE IF key \in DOMAIN c.oldCache
    THEN [c   |-> [c EXCEPT !.oldCache = DelMap(c.oldCache, key)],
          ret |-> TRUE,
          ev  |-> Notify(c, SetToBag({<<key, c.oldCache[key]>>}))]
    ELSE [c |-> c, ret |-> FALSE, ev |-> EmptyBag]

\* A plausible slip: size-- runs before the key is looked up.
RemoveAlwaysDecrements(c, key) ==
    IF key \in DOMAIN c.newCache
    THEN [c   |-> [c EXCEPT !.newCache = DelMap(c.newCache, key), !.size = c.size - 1],
          ret |-> TRUE,
          ev  |-> Notify(c, SetToBag({<<key, c.newCache[key]>>}))]
    ELSE IF key \in DOMAIN c.oldCache
    THEN [c   |-> [c EXCEPT !.oldCache = DelMap(c.oldCache, key), !.size = c.size - 1],
          ret |-> TRUE,
          ev  |-> Notify(c, SetToBag({<<key, c.oldCache[key]>>}))]
    ELSE [c |-> [c EXCEPT !.size = c.size - 1], ret |-> FALSE, ev |-> EmptyBag]

\* Remove: delete from newCache (size--), else from oldCache; one notification.
Remove(c, key) ==
    IF key \in DOMAIN c.newCache
    THEN [c   |-> [c EXCEPT !.newCache = DelMap(c.newCache, key), !.size = c.size - 1],
          ret |-> TRUE,
          ev  |-> Notify(c, SetToBag({<<key, c.newCache[key]>>}))]
    ELSE IF key \in DOMAIN c.oldCache
    THEN [c   |-> [c EXCEPT !.oldCache = DelMap(c.oldCache, key)],
          ret |-> TRUE,
          ev  |-> Notify(c, SetToBag({<<key, c.oldCache[key]>>}))]
    ELSE [c |-> c, ret |-> FALSE, ev |-> EmptyBag]

\* A plausible slip: Clear notifies as Keys lists, skipping the oldCache entry of a
\* key newCache holds too.
ClearNotifiesKeysOnce(c) ==
    [c  |-> [c EXCEPT !.oldCache = EmptyMap, !.newCache = EmptyMap, !.size = 0],
     ev |-> Notify(c, SetToBag({<<k, c.oldCache[k]>> : k \in (DOMAIN c.oldCache) \ (DOMAIN c.newCache)})
                        (+) MapBag(c.newCache))]

\* Clear: notify every entry of oldCache, then of newCache; empty both; size 0.
Clear(c) ==
    [c  |-> [c EXCEPT !.oldCache = EmptyMap, !.newCache = EmptyMap, !.size = 0],
     ev |-> Notify(c, MapBag(c.oldCache) (+) MapBag(c.newCache))]

\* The keys of oldCache that newCache does not hold.
Unshadowed(c) == (DOMAIN c.oldCache) \ (DOMAIN c.newCache)

----------------------------------------------------------------------------
\* Len, in the three reads the code makes.

\* Under RLock: the size == 0 test and the count of unshadowed oldCache keys.
LenLocked(c) == [zero |-> (c.size = 0), oldCacheSize |-> Cardinality(Unshadowed(c))]

\* After RUnlock: len(lru.oldCache) on the size == 0 path, else lru.size + oldCacheSize.
LenReadSize(loc, c) ==
    IF loc.zero THEN Cardinality(DOMAIN c.oldCache) ELSE c.size + loc.oldCacheSize

\* After RUnlock: the clamp by lru.maxSize (the size == 0 path does not clamp).
LenReadMax(loc, sum, c) == IF loc.zero THEN sum ELSE Min(sum, c.maxSize)

\* Len when nothing runs between its reads.
LenOp(c) == LenReadMax(LenLocked(c), LenReadSize(LenLocked(c), c), c)

\* A plausible slip: the oldCache loop appends every key (the line the code has
\* commented out).
KeysListsShadowed(c) == SetToBag(DOMAIN c.oldCache) (+) SetToBag(DOMAIN c.newCache)

\* Keys: the unshadowed oldCache keys, then the newCache keys, as a bag.
Keys(c) == SetToBag(Unshadowed(c)) (+) SetToBag(DOMAIN c.newCache)

\* The values a `range m` loop appends for the keys S of m, as a bag.
ValBag(m, S) == [v \in {m[k] : k \in S} |-> Cardinality({k \in S : m[k] = v})]

\* Vals: the values of the unshadowed oldCache keys, then the newCache values, as a bag.
ValsOp(c) == ValBag(c.oldCache, Unshadowed(c)) (+) ValBag(c.newCache, DOMAIN c.newCache)

\* all: the unshadowed oldCache pairs in the order ordOld, then the newCache pairs
\* in the order ordNew.
all(c, ordOld, ordNew) ==
    [i \in 1..(Len(ordOld) + Len(ordNew)) |->
        IF i <= Len(ordOld)
        THEN <<ordOld[i], c.oldCache[ordOld[i]]>>
        ELSE <<ordNew[i - Len(ordOld)], c.newCache[ordNew[i - Len(ordOld)]]>>]

\* Every sequence all() may return: map iteration order is not fixed.
AllPairs(c) ==
    {all(c, o1, o2) : o1 \in Orders(Unshadowed(c)), o2 \in Orders(DOMAIN c.newCache)}

\* The pairs at positions from..to of a sequence, as a bag.
SeqBag(s, from, to) ==
    LET RECURSIVE go(_)
        go(i) == IF i > to THEN EmptyBag ELSE SetToBag({s[i]}) (+) go(i + 1)
    IN  go(from)

\* The map the loop `oldCache[pairs[i].key] = pairs[i].value` builds for i in from..Len.
SeqMap(s, from) ==
    LET idx == from..Len(s)
    IN  [k \in {s[i][1] : i \in idx} |->
            s[CHOOSE i \in idx : s[i][1] = k /\ \A j \in idx : s[j][1] = k => j <= i][2]]

\* The merge loop of the grow branch: every oldCache pair is written over newCache.
MergeOldIntoNew(c) ==
    [k \in (DOMAIN c.oldCache) \cup (DOMAIN c.newCache) |->
        IF k \in DOMAIN c.oldCache THEN c.oldCache[k] ELSE c.newCache[k]]

\* Resize, removeCount < 0: under Lock, merge, size = totalItems, maxSize = newSize.
ResizeGrow(c, totalItems, newSize) ==
    [c |-> [c EXCEPT !.newCache = MergeOldIntoNew(c), !.oldCache = EmptyMap,
                     !.size = totalItems, !.maxSize = newSize],
     ret |-> 0, err |-> FALSE, ev |-> EmptyBag, evicted |-> EmptyBag, panic |-> FALSE]

\* A plausible slip: the re-insertion loop starts one position late.
ResizeShrinkDropsOneMore(c, allPairs, removeCount, newSize) ==
    IF c.onEvictedCB /\ removeCount > Len(allPairs)
    THEN [c |-> [c EXCEPT !.oldCache = EmptyMap, !.newCache = EmptyMap,
                          !.size = 0, !.maxSize = newSize],
          ret |-> 0, err |-> FALSE,
          ev |-> SeqBag(allPairs, 1, Len(allPairs)),
          evicted |-> SeqBag(allPairs, 1, Len(allPairs)), panic |-> TRUE]
    ELSE [c |-> [c EXCEPT !.oldCache = SeqMap(allPairs, removeCount + 2),
                          !.newCache = EmptyMap, !.size = 0, !.maxSize = newSize],
          ret |-> removeCount, err |-> FALSE,
          ev |-> Notify(c, SeqBag(allPairs, 1, Min(removeCount, Len(allPairs)))),
          evicted |-> SeqBag(allPairs, 1, Min(removeCount, Len(allPairs))),
          panic |-> FALSE]

\* Resize, removeCount >= 0: under Lock, both maps emptied, size 0, maxSize = newSize,
\* the first removeCount pairs notified, the rest stored in oldCache. allPairs[i] with
\* i past the end panics, which only the callback loop can reach.
ResizeShrink(c, allPairs, removeCount, newSize) ==
    IF c.onEvictedCB /\ removeCount > Len(allPairs)
    THEN [c |-> [c EXCEPT !.oldCache = EmptyMap, !.newCache = EmptyMap,
                          !.size = 0, !.maxSize = newSize],
          ret |-> 0, err |-> FALSE,
          ev |-> SeqBag(allPairs, 1, Len(allPairs)),
          evicted |-> SeqBag(allPairs, 1, Len(allPairs)), panic |-> TRUE]
    ELSE [c |-> [c EXCEPT !.oldCache = SeqMap(allPairs, removeCount + 1),
                          !.newCache = EmptyMap, !.size = 0, !.maxSize = newSize],
          ret |-> removeCount, err |-> FALSE,
          ev |-> Notify(c, SeqBag(allPairs, 1, Min(removeCount, Len(allPairs)))),
          evicted |-> SeqBag(allPairs, 1, Min(removeCount, Len(allPairs))),
          panic |-> FALSE]

\* A plausible slip: the argument test is newSize < 0.
ResizeAllowsZero(c, newSize, allPairs) ==
    IF newSize < 0
    THEN [c |-> c, ret |-> 0, err |-> TRUE, ev |-> EmptyBag, evicted |-> EmptyBag,
          panic |-> FALSE]
    ELSE IF LenOp(c) - newSize < 0
         THEN ResizeGrow(c, LenOp(c), newSize)
         ELSE ResizeShrink(c, allPairs, LenOp(c) - newSize, newSize)

\* A plausible slip: totalItems counts the collected pairs instead of calling Len.
ResizeCountsPairs(c, newSize, allPairs) ==
    IF newSize <= 0
    THEN [c |-> c, ret |-> 0, err |-> TRUE, ev |-> EmptyBag, evicted |-> EmptyBag,
          panic |-> FALSE]
    ELSE IF Len(allPairs) - newSize < 0
         THEN ResizeGrow(c, Len(allPairs), newSize)
         ELSE ResizeShrink(c, allPairs, Len(allPairs) - newSize, newSize)

\* A plausible slip: the branch test is removeCount <= 0.
ResizeEqualGrows(c, newSize, allPairs) ==
    IF newSize <= 0
    THEN [c |-> c, ret |-> 0, err |-> TRUE, ev |-> EmptyBag, evicted |-> EmptyBag,
          panic |-> FALSE]
    ELSE IF LenOp(c) - newSize <= 0
         THEN ResizeGrow(c, LenOp(c), newSize)
         ELSE ResizeShrink(c, allPairs, LenOp(c) - newSize, newSize)

\* Resize when nothing runs between its steps; allPairs is what all() returns.
Resize(c, newSize, allPairs) ==
    IF newSize <= 0
    THEN [c |-> c, ret |-> 0, err |-> TRUE, ev |-> EmptyBag, evicted |-> EmptyBag,
          panic |-> FALSE]
    ELSE IF LenOp(c) - newSize < 0
         THEN ResizeGrow(c, LenOp(c), newSize)
         ELSE ResizeShrink(c, allPairs, LenOp(c) - newSize, newSize)

----------------------------------------------------------------------------
\* The stores of the write-locked sections, one by one. Len reads lru.size,
\* lru.maxSize and len(lru.oldCache) after RUnlock, so these reads can fall between two
\* stores of a section another goroutine runs under the write lock. A section is the
\* sequence of the stores it makes, in program order; a `range` loop is one entry
\* that makes one store per key of the map, in any order.

St(op, key, val) == [op |-> op, key |-> key, val |-> val, todo |-> {}]

Loop(op, keys) == [op |-> op, key |-> 0, val |-> 0, todo |-> keys]

\* The cache after the store s; for a loop, after the store it makes for s.key.
Do(c, s) ==
    CASE s.op = "newCache[key] = value" -> [c EXCEPT !.newCache = PutMap(@, s.key, s.val)]
      [] s.op = "oldCache[key] = value" -> [c EXCEPT !.oldCache = PutMap(@, s.key, s.val)]
      [] s.op = "delete(newCache, key)" -> [c EXCEPT !.newCache = DelMap(@, s.key)]
      [] s.op = "delete(oldCache, key)" -> [c EXCEPT !.oldCache = DelMap(@, s.key)]
      [] s.op = "size++" -> [c EXCEPT !.size = @ + 1]
      [] s.op = "size--" -> [c EXCEPT !.size = @ - 1]
      [] s.op = "size = val" -> [c EXCEPT !.size = s.val]
      [] s.op = "maxSize = val" -> [c EXCEPT !.maxSize = s.val]
      [] s.op = "oldCache = make()" -> [c EXCEPT !.oldCache = EmptyMap]
      [] s.op = "newCache = make()" -> [c EXCEPT !.newCache = EmptyMap]
      [] s.op = "range newCache" -> [c EXCEPT !.oldCache = PutMap(@, s.key, c.newCache[s.key])]
      [] s.op = "range oldCache" -> [c EXCEPT !.newCache = PutMap(@, s.key, c.oldCache[s.key])]

\* The next store of the section p: the cache after it and the stores still to make.
NextStores(c, p) ==
    IF Head(p).todo = {}
    THEN {[c |-> Do(c, Head(p)), pending |-> Tail(p)]}
    ELSE {[c |-> Do(c, [Head(p) EXCEPT !.key = k]),
           pending |-> IF Head(p).todo = {k}
                       THEN Tail(p)
                       ELSE <<[Head(p) EXCEPT !.todo = @ \ {k}]>> \o Tail(p)] :
          k \in Head(p).todo}

\* The cache after the last store of the section p: the order in which a loop visits
\* its map makes no difference to it.
RECURSIVE EndOf(_, _)
EndOf(c, p) ==
    IF p = <<>> THEN c
    ELSE LET n == CHOOSE n \in NextStores(c, p) : TRUE
         IN  EndOf(n.c, n.pending)

\* update: newCache[key] = value; size++; and when size >= maxSize: size = 0;
\* oldCache = make(); the copy loop; newCache = make().
updateStores(c, key, value) ==
    <<St("newCache[key] = value", key, value), St("size++", 0, 0)>> \o
    IF c.size + 1 >= c.maxSize
    THEN <<St("size = val", 0, 0), St("oldCache = make()", 0, 0),
           Loop("range newCache", (DOMAIN c.newCache) \cup {key}),
           St("newCache = make()", 0, 0)>>
    ELSE <<>>

\* Set: one store for a key in newCache, else the stores of update.
SetStores(c, key, value) ==
    IF key \in DOMAIN c.newCache
    THEN <<St("newCache[key] = value", key, value)>>
    ELSE updateStores(c, key, value)

\* Get: no store for a newCache hit or a miss; delete(lru.oldCache, key), then the
\* stores of update, for an oldCache hit.
GetStores(c, key) ==
    IF key \in DOMAIN c.newCache THEN <<>>
    ELSE IF key \in DOMAIN c.oldCache
    THEN <<St("delete(oldCache, key)", key, 0)>> \o updateStores(c, key, c.oldCache[key])
    ELSE <<>>

\* Remove: delete(lru.newCache, key); size--, or delete(lru.oldCache, key), or nothing.
RemoveStores(c, key) ==
    IF key \in DOMAIN c.newCache
    THEN <<St("delete(newCache, key)", key, 0), St("size--", 0, 0)>>
    ELSE IF key \in DOMAIN c.oldCache
    THEN <<St("delete(oldCache, key)", key, 0)>>
    ELSE <<>>

\* Clear: oldCache = make(); newCache = make(); size = 0.
ClearStores ==
    <<St("oldCache = make()", 0, 0), St("newCache = make()", 0, 0), St("size = val", 0, 0)>>

\* Resize, removeCount < 0: the merge loop; oldCache = make(); size = totalItems;
\* maxSize = newSize.
ResizeGrowStores(c, totalItems, newSize) ==
    (IF c.oldCache = EmptyMap THEN <<>> ELSE <<Loop("range oldCache", DOMAIN c.oldCache)>>) \o
    <<St("oldCache = make()", 0, 0), St("size = val", 0, totalItems),
      St("maxSize = val", 0, newSize)>>

\* Resize, removeCount >= 0: oldCache = make(); newCache = make(); size = 0;
\* maxSize = newSize; then (unless the callback loop panics) one store
\* oldCache[allPairs[i].key] = allPairs[i].value per pair from removeCount on.
ResizeShrinkStores(c, allPairs, removeCount, newSize) ==
    <<St("oldCache = make()", 0, 0), St("newCache = make()", 0, 0),
      St("size = val", 0, 0), St("maxSize = val", 0, newSize)>> \o
    IF c.onEvictedCB /\ removeCount > Len(allPairs)
    THEN <<>>
    ELSE [i \in 1..(Len(allPairs) - Max(removeCount, 0)) |->
            St("oldCache[key] = value", allPairs[removeCount + i][1],
               allPairs[removeCount + i][2])]

----------------------------------------------------------------------------
\* The state machine.

\* The record of a completed call. val 0 is nil; rot tells whether the call rotated;
\* preLen is Len() just before the call.
Call(op, key, val, n, ret, found, err, ev, rot) ==
    [op |-> op, key |-> key, val |-> val, n |-> n, ret |-> ret, found |-> found,
     err |-> err, ev |-> ev, rot |-> rot, preLen |-> LenOp(lru)]

\* No call of another goroutine has completed during the call in progress.
NoCall == [op |-> "none", key |-> 0]

\* The Resize goroutine: where it is (pc), its locals, what it returned, the pairs it
\* evicted, and (after, calls) the mutating call of another goroutine that completed
\* last while it was in progress and how many did.
RzIdle ==
    [pc |-> "idle", newSize |-> 0, loc |-> [zero |-> TRUE, oldCacheSize |-> 0], sum |-> 0,
     totalItems |-> 0, removeCount |-> 0, allPairs |-> <<>>, ret |-> 0, err |-> FALSE,
     evicted |-> EmptyBag, after |-> NoCall, calls |-> 0]

\* The Len goroutine: where it is (pc), its locals, what it returned, (cands) the
\* Len() of the state the cache was in at its call and of the state every
\* write-locked section that started before its return leaves, and (calls) how many
\* such sections there were.
LnIdle ==
    [pc |-> "idle", loc |-> [zero |-> TRUE, oldCacheSize |-> 0], sum |-> 0, ret |-> 0,
     cands |-> {}, calls |-> 0]

\* No write-locked section is in progress. A section in progress: who runs it (a
\* mutating call, or Resize), the call it belongs to, the cache after each store it
\* has still to make, and whether it panics after the last of them.
LkFree == [holder |-> "none", op |-> "none", key |-> 0, pending |-> <<>>, panic |-> FALSE]

RzInProgress == rz.pc \in {"len", "summed", "sized", "collected", "locked"}

LnInProgress == ln.pc \in {"unlocked", "summed"}

\* A mutating call of another goroutine completes: a Resize in progress notes it.
Noted(op, key) ==
    IF RzInProgress
    THEN [rz EXCEPT !.after = [op |-> op, key |-> key], !.calls = @ + 1]
    ELSE rz

\* A write-locked section that leaves the cache c2 has the lock: a Len in progress
\* has one more state it may answer for.
Watch(c2) ==
    IF LnInProgress
    THEN [ln EXCEPT !.cands = @ \cup {LenOp(c2)}, !.calls = @ + 1]
    ELSE ln

\* The caller holds a store: a method called on the nil the failed constructor
\* returned never gets to run.
HasStore == lru # NilStore

\* The cache becomes c2. lru.size is an int with no lower bound of its own: the model
\* stops at -MaxDeficit.
Install(c2) ==
    /\ HasStore
    /\ c2.size >= -MaxDeficit
    /\ maxSize' = c2.maxSize
    /\ size' = c2.size
    /\ oldCache' = c2.oldCache
    /\ newCache' = c2.newCache
    /\ onEvictedCB' = c2.onEvictedCB

\* A panic inside Resize leaves the lock held: nothing runs after it.
Running == rz.pc # "panic"

NoTouch == [touched |-> <<>>, since |-> [k \in KeySet |-> {}]]

NotOnlySets ==
    [onlySets |-> FALSE, keys |-> {}, distinct |-> FALSE, order |-> <<>>,
     touched |-> NoTouch.touched, since |-> NoTouch.since]

Init ==
    \E cap \in CtorArgs, cb \in BOOLEAN :
        /\ maxSize = NewWithEvict(cap, cb).c.maxSize
        /\ size = NewWithEvict(cap, cb).c.size
        /\ oldCache = NewWithEvict(cap, cb).c.oldCache
        /\ newCache = NewWithEvict(cap, cb).c.newCache
        /\ onEvictedCB = NewWithEvict(cap, cb).c.onEvictedCB
        /\ last = [op |-> "New", key |-> 0, val |-> 0, n |-> cap, ret |-> 0,
                   found |-> FALSE, err |-> NewWithEvict(cap, cb).err,
                   ev |-> EmptyBag, rot |-> FALSE, preLen |-> 0]
        /\ hist = [onlySets |-> TRUE, keys |-> {}, distinct |-> TRUE, order |-> <<>>,
                   touched |-> NoTouch.touched, since |-> NoTouch.since]
        /\ rz = RzIdle
        /\ ln = LnIdle
        /\ lk = LkFree

\* The mutating calls that hold the write lock from their first to their last access:
\* each is one step. rec tells whether the step is recorded in last.

SetStep(k, v, rec) ==
    /\ \E r \in {Set(lru, k, v)} :
           /\ Install(r.c)
           /\ last' = IF rec THEN Call("Set", k, v, 0, 0, FALSE, FALSE, r.ev, r.rot) ELSE last
           /\ ln' = Watch(r.c)
    /\ hist' = IF hist.onlySets
               THEN [hist EXCEPT !.keys = @ \cup {k},
                                 !.distinct = @ /\ k \notin hist.keys,
                                 !.order = IF hist.distinct /\ k \notin hist.keys
                                           THEN Append(@, k) ELSE <<>>]
               ELSE hist
    /\ rz' = Noted("Set", k)
    /\ UNCHANGED lk

GetStep(k, rec) ==
    /\ \E r \in {Get(lru, k)} :
           /\ Install(r.c)
           /\ last' = IF rec THEN Call("Get", k, r.val, 0, 0, r.found, FALSE, r.ev, r.rot) ELSE last
           /\ ln' = Watch(r.c)
    /\ hist' = NotOnlySets
    /\ rz' = Noted("Get", k)
    /\ UNCHANGED lk

RemoveStep(k, rec) ==
    /\ \E r \in {Remove(lru, k)} :
           /\ Install(r.c)
           /\ last' = IF rec THEN Call("Remove", k, 0, 0, 0, r.ret, FALSE, r.ev, FALSE) ELSE last
           /\ ln' = Watch(r.c)
    /\ hist' = NotOnlySets
    /\ rz' = Noted("Remove", k)
    /\ UNCHANGED lk

ClearStep(rec) ==
    /\ \E r \in {Clear(lru)} :
           /\ Install(r.c)
           /\ last' = IF rec THEN Call("Clear", 0, 0, 0, 0, FALSE, FALSE, r.ev, FALSE) ELSE last
           /\ ln' = Watch(r.c)
    /\ hist' = NotOnlySets
    /\ rz' = Noted("Clear", 0)
    /\ UNCHANGED lk

\* Resize with nothing running between its steps. all() runs on the partition branch only.
ResizeStep(n, rec) ==
    /\ \E p \in (IF n > 0 /\ LenOp(lru) - n >= 0 THEN AllPairs(lru) ELSE {<<>>}) :
        \E r \in {Resize(lru, n, p)} :
            /\ Install(r.c)
            /\ last' = IF rec THEN Call("Resize", 0, 0, n, r.ret, FALSE, r.err, r.ev, FALSE) ELSE last
            /\ ln' = Watch(r.c)
    /\ hist' = NotOnlySets
    /\ UNCHANGED <<rz, lk>>

----------------------------------------------------------------------------
\* One goroutine: every call runs from its first to its last step with nothing between.

CallSet(k, v) == SetStep(k, v, TRUE)

CallGet(k) == GetStep(k, TRUE)

CallRemove(k) == RemoveStep(k, TRUE)

CallClear == ClearStep(TRUE)

CallResize(n) == ResizeStep(n, TRUE)

\* Peek, Has, Len, Keys and Vals write no field and their results are functions of the cache:
\* the record keeps the name of the call only.
\* A plausible slip: Peek promotes as Get does.
CallPeekPromotes(k) ==
    /\ \E r \in {Get(lru, k)} :
           /\ Install(r.c)
           /\ last' = Call("Peek", 0, 0, 0, 0, FALSE, FALSE, r.ev, FALSE)
           /\ ln' = Watch(r.c)
    /\ UNCHANGED <<hist, rz, lk>>

CallPeek(k) ==
    /\ HasStore
    /\ Peek(lru, k) \in (Vals \cup {0}) \X BOOLEAN
    /\ last' = Call("Peek", 0, 0, 0, 0, FALSE, FALSE, EmptyBag, FALSE)
    /\ UNCHANGED <<maxSize, size, oldCache, newCache, onEvictedCB, hist, rz, ln, lk>>

CallHas(k) ==
    /\ HasStore
    /\ Has(lru, k) \in BOOLEAN
    /\ last' = Call("Has", 0, 0, 0, 0, FALSE, FALSE, EmptyBag, FALSE)
    /\ UNCHANGED <<maxSize, size, oldCache, newCache, onEvictedCB, hist, rz, ln, lk>>

CallLen ==
    /\ HasStore
    /\ LenOp(lru) \in Int
    /\ last' = Call("Len", 0, 0, 0, 0, FALSE, FALSE, EmptyBag, FALSE)
    /\ UNCHANGED <<maxSize, size, oldCache, newCache, onEvictedCB, hist, rz, ln, lk>>

CallKeys ==
    /\ HasStore
    /\ IsABag(Keys(lru))
    /\ last' = Call("Keys", 0, 0, 0, 0, FALSE, FALSE, EmptyBag, FALSE)
    /\ UNCHANGED <<maxSize, size, oldCache, newCache, onEvictedCB, hist, rz, ln, lk>>

CallVals ==
    /\ HasStore
    /\ IsABag(ValsOp(lru))
    /\ last' = Call("Vals", 0, 0, 0, 0, FALSE, FALSE, EmptyBag, FALSE)
    /\ UNCHANGED <<maxSize, size, oldCache, newCache, onEvictedCB, hist, rz, ln, lk>>

Next ==
    \/ \E k \in KeySet, v \in Vals : CallSet(k, v)
    \/ \E k \in KeySet : CallGet(k)
    \/ \E k \in KeySet : CallPeek(k)
    \/ \E k \in KeySet : CallHas(k)
    \/ \E k \in KeySet : CallRemove(k)
    \/ CallClear
    \/ CallLen
    \/ CallKeys
    \/ CallVals
    \/ \E n \in ResizeArgs : CallResize(n)

\* Any sequence of calls made by one goroutine.
Spec == Init /\ [][Next]_vars

----------------------------------------------------------------------------
\* A freshly constructed cache filled by Set calls of pairwise distinct keys, as
\* Test_onEvict fills it: the keys are drawn in any order from twice as many keys as
\* the largest capacity, and each key comes with one value.

FillKeys == 1..(2 * MaxCap)

FillVal(k) == 1 + (k % 2)

FillSet(k) ==
    /\ hist.distinct
    /\ k \notin hist.keys
    /\ SetStep(k, FillVal(k), TRUE)

NextFill == \E k \in FillKeys : FillSet(k)

SpecFill == Init /\ [][NextFill]_vars

----------------------------------------------------------------------------
\* A cache used through Set and Get only, with the record of what was touched: a Set
\* touches its key, a Get that finds its key touches it; the call inserts the key when
\* it runs update (the key was not in newCache).

\* The keys touched, most recent first, after a touch of k.
Touch(seq, k) == <<k>> \o SelectSeq(seq, LAMBDA x : x # k)

\* The record after a call on key k; nothing changes when the call touched nothing.
Touched(k, touches, inserts) ==
    IF touches
    THEN [hist EXCEPT !.touched = Touch(@, k),
                      !.since = [j \in KeySet |->
                                    IF j = k THEN {}
                                    ELSE IF inserts THEN @[j] \cup {k} ELSE @[j]]]
    ELSE hist

TouchSet(k, v) ==
    /\ \E r \in {Set(lru, k, v)} :
           /\ Install(r.c)
           /\ last' = Call("Set", k, v, 0, 0, FALSE, FALSE, r.ev, r.rot)
    /\ hist' = Touched(k, TRUE, k \notin DOMAIN newCache)
    /\ UNCHANGED <<rz, ln, lk>>

TouchGet(k) ==
    /\ \E r \in {Get(lru, k)} :
           /\ Install(r.c)
           /\ last' = Call("Get", k, r.val, 0, 0, r.found, FALSE, r.ev, r.rot)
           /\ hist' = Touched(k, r.found, k \notin DOMAIN newCache)
    /\ UNCHANGED <<rz, ln, lk>>

NextTouch ==
    \/ \E k \in KeySet, v \in Vals : TouchSet(k, v)
    \/ \E k \in KeySet : TouchGet(k)

SpecTouch == Init /\ [][NextTouch]_vars

----------------------------------------------------------------------------
\* Goroutines running side by side. A section under RLock writes nothing and is one
\* step, taken while no write-locked section is in progress. A section under Lock is
\* one step per store: no other locked section runs before its last store, but the
\* reads Len makes after RUnlock do. Len and Resize release the lock between their
\* sections, and the calls of other goroutines run in between, at most MaxInterleaved
\* of them during one call. A call that has returned is forgotten before the next
\* call runs.

Settled == Running /\ rz.pc # "done" /\ ln.pc # "done"

CanInterleave ==
    /\ Settled
    /\ RzInProgress => rz.calls < MaxInterleaved
    /\ LnInProgress => ln.calls < MaxInterleaved

Unlocked == lk.holder = "none"

\* A store: the fields of the cache become those of c2.
Store(c2) ==
    /\ maxSize' = c2.maxSize
    /\ size' = c2.size
    /\ oldCache' = c2.oldCache
    /\ newCache' = c2.newCache
    /\ onEvictedCB' = c2.onEvictedCB

\* A mutating call of another goroutine takes the write lock and makes the first of
\* its stores p; with no more than one store to make it has returned (Unlock). A Len
\* in progress may answer for the state the call leaves from the moment the call has
\* the lock. lru.size is an int with no lower bound of its own: the model stops at
\* -MaxDeficit.
GoLocked(op, key, p) ==
    /\ HasStore
    /\ CanInterleave
    /\ Unlocked
    /\ EndOf(lru, p).size >= -MaxDeficit
    /\ ln' = Watch(EndOf(lru, p))
    /\ IF p = <<>>
       THEN /\ Store(lru)
            /\ lk' = lk
            /\ rz' = Noted(op, key)
       ELSE \E n \in NextStores(lru, p) :
                /\ Store(n.c)
                /\ IF n.pending = <<>>
                   THEN /\ lk' = lk
                        /\ rz' = Noted(op, key)
                   ELSE /\ lk' = [holder |-> "call", op |-> op, key |-> key,
                                  pending |-> n.pending, panic |-> FALSE]
                        /\ rz' = rz
    /\ UNCHANGED last

GoSet(k, v) ==
    /\ GoLocked("Set", k, SetStores(lru, k, v))
    /\ hist' = NotOnlySets

GoGet(k) ==
    /\ GoLocked("Get", k, GetStores(lru, k))
    /\ hist' = NotOnlySets

GoRemove(k) ==
    /\ GoLocked("Remove", k, RemoveStores(lru, k))
    /\ hist' = NotOnlySets

GoClear ==
    /\ GoLocked("Clear", 0, ClearStores)
    /\ hist' = NotOnlySets

\* The next store of the mutating call in progress; after the last one the call
\* unlocks and has returned.
GoStore ==
    /\ lk.holder = "call"
    /\ \E n \in NextStores(lru, lk.pending) :
           /\ Store(n.c)
           /\ IF n.pending = <<>>
              THEN /\ lk' = LkFree
                   /\ rz' = Noted(lk.op, lk.key)
              ELSE /\ lk' = [lk EXCEPT !.pending = n.pending]
                   /\ rz' = rz
    /\ UNCHANGED <<last, hist, ln>>

\* Resize(n): the argument test, then the locked section of its Len() call.
RzCall(n) ==
    /\ HasStore
    /\ CanInterleave
    /\ n > 0 => Unlocked
    /\ rz.pc = "idle"
    /\ rz' = IF n <= 0
             THEN [RzIdle EXCEPT !.pc = "done", !.newSize = n, !.err = TRUE]
             ELSE [RzIdle EXCEPT !.pc = "len", !.newSize = n, !.loc = LenLocked(lru)]
    /\ hist' = NotOnlySets
    /\ UNCHANGED <<maxSize, size, oldCache, newCache, onEvictedCB, last, ln, lk>>

\* Resize's Len(): the read of lru.size (or of len(lru.oldCache)) after RUnlock.
RzLenReadSize ==
    /\ rz.pc = "len"
    /\ rz' = [rz EXCEPT !.pc = "summed", !.sum = LenReadSize(rz.loc, lru)]
    /\ UNCHANGED <<maxSize, size, oldCache, newCache, onEvictedCB, last, hist, ln, lk>>

\* Resize's Len(): the read of lru.maxSize; totalItems and removeCount are set.
RzLenReadMax ==
    /\ rz.pc = "summed"
    /\ rz' = [rz EXCEPT !.pc = "sized",
                        !.totalItems = LenReadMax(rz.loc, rz.sum, lru),
                        !.removeCount = LenReadMax(rz.loc, rz.sum, lru) - rz.newSize]
    /\ UNCHANGED <<maxSize, size, oldCache, newCache, onEvictedCB, last, hist, ln, lk>>

\* Resize, removeCount < 0: Lock, and the first store of the merge.
RzGrow ==
    /\ rz.pc = "sized"
    /\ rz.removeCount < 0
    /\ Unlocked
    /\ rz.totalItems >= -MaxDeficit
    /\ \E n \in NextStores(lru, ResizeGrowStores(lru, rz.totalItems, rz.newSize)) :
           /\ Store(n.c)
           /\ lk' = [holder |-> "resize", op |-> "Resize", key |-> 0,
                     pending |-> n.pending, panic |-> FALSE]
    /\ rz' = [rz EXCEPT !.pc = "locked", !.ret = 0, !.evicted = EmptyBag]
    /\ ln' = Watch(EndOf(lru, ResizeGrowStores(lru, rz.totalItems, rz.newSize)))
    /\ UNCHANGED <<last, hist>>

\* Resize, removeCount >= 0: all() collects the pairs under RLock.
RzAll ==
    /\ rz.pc = "sized"
    /\ rz.removeCount >= 0
    /\ Unlocked
    /\ \E p \in AllPairs(lru) : rz' = [rz EXCEPT !.pc = "collected", !.allPairs = p]
    /\ UNCHANGED <<maxSize, size, oldCache, newCache, onEvictedCB, last, hist, ln, lk>>

\* Resize, removeCount >= 0: Lock, and the first store of the eviction and
\* re-insertion of the collected pairs.
RzShrink ==
    /\ rz.pc = "collected"
    /\ Unlocked
    /\ \E r \in {ResizeShrink(lru, rz.allPairs, rz.removeCount, rz.newSize)},
          n \in NextStores(lru, ResizeShrinkStores(lru, rz.allPairs, rz.removeCount,
                                                   rz.newSize)) :
           /\ Store(n.c)
           /\ lk' = [holder |-> "resize", op |-> "Resize", key |-> 0,
                     pending |-> n.pending, panic |-> r.panic]
           /\ rz' = [rz EXCEPT !.pc = "locked", !.ret = r.ret, !.evicted = r.evicted]
           /\ ln' = Watch(r.c)
    /\ UNCHANGED <<last, hist>>

\* The next store of Resize's locked section; after the last one Resize unlocks and
\* returns, or panics with the lock held.
RzStore ==
    /\ lk.holder = "resize"
    /\ lk.pending # <<>>
    /\ \E n \in NextStores(lru, lk.pending) :
           /\ Store(n.c)
           /\ IF n.pending = <<>>
              THEN /\ lk' = IF lk.panic THEN [lk EXCEPT !.pending = <<>>] ELSE LkFree
                   /\ rz' = [rz EXCEPT !.pc = IF lk.panic THEN "panic" ELSE "done"]
              ELSE /\ lk' = [lk EXCEPT !.pending = n.pending]
                   /\ rz' = rz
    /\ UNCHANGED <<last, hist, ln>>

\* The caller of Resize has its result.
RzReturn ==
    /\ rz.pc = "done"
    /\ rz' = RzIdle
    /\ UNCHANGED <<maxSize, size, oldCache, newCache, onEvictedCB, last, hist, ln, lk>>

\* Len(): the locked section.
LnCall ==
    /\ HasStore
    /\ Settled
    /\ Unlocked
    /\ ln.pc = "idle"
    /\ ln' = [LnIdle EXCEPT !.pc = "unlocked", !.loc = LenLocked(lru),
                            !.cands = {LenOp(lru)}]
    /\ UNCHANGED <<maxSize, size, oldCache, newCache, onEvictedCB, last, hist, rz, lk>>

\* Len(): the read of lru.size (or of len(lru.oldCache)) after RUnlock.
LnReadSize ==
    /\ ln.pc = "unlocked"
    /\ ln' = [ln EXCEPT !.pc = "summed", !.sum = LenReadSize(ln.loc, lru)]
    /\ UNCHANGED <<maxSize, size, oldCache, newCache, onEvictedCB, last, hist, rz, lk>>

\* Len(): the read of lru.maxSize, and the return.
LnReadMax ==
    /\ ln.pc = "summed"
    /\ ln' = [ln EXCEPT !.pc = "done", !.ret = LenReadMax(ln.loc, ln.sum, lru)]
    /\ UNCHANGED <<maxSize, size, oldCache, newCache, onEvictedCB, last, hist, rz, lk>>

\* The caller of Len has its result.
LnReturn ==
    /\ ln.pc = "done"
    /\ ln' = LnIdle
    /\ UNCHANGED <<maxSize, size, oldCache, newCache, onEvictedCB, last, hist, rz, lk>>

NextResize ==
    \/ \E k \in KeySet, v \in Vals : GoSet(k, v)
    \/ \E k \in KeySet : GoGet(k)
    \/ \E k \in KeySet : GoRemove(k)
    \/ GoClear
    \/ GoStore
    \/ \E n \in ResizeArgs : RzCall(n)
    \/ RzLenReadSize
    \/ RzLenReadMax
    \/ RzGrow
    \/ RzAll
    \/ RzShrink
    \/ RzStore
    \/ RzReturn

\* One goroutine calling Resize while another makes mutating calls.
SpecResize == Init /\ [][NextResize]_vars

\* The calls of one goroutine follow one another: it makes no other call while its
\* Resize is in progress, and calls Resize when its last call has returned.
NextSet(k, v) ==
    /\ rz.pc = "idle"
    /\ GoSet(k, v)

NextGet(k) ==
    /\ rz.pc = "idle"
    /\ GoGet(k)

NextRemove(k) ==
    /\ rz.pc = "idle"
    /\ GoRemove(k)

NextClear ==
    /\ rz.pc = "idle"
    /\ GoClear

NextRz(n) ==
    /\ Unlocked
    /\ RzCall(n)

NextLen ==
    \/ \E k \in KeySet, v \in Vals : NextSet(k, v)
    \/ \E k \in KeySet : NextGet(k)
    \/ \E k \in KeySet : NextRemove(k)
    \/ NextClear
    \/ GoStore
    \/ \E n \in ResizeArgs : NextRz(n)
    \/ RzLenReadSize
    \/ RzLenReadMax
    \/ RzGrow
    \/ RzAll
    \/ RzShrink
    \/ RzStore
    \/ RzReturn
    \/ LnCall
    \/ LnReadSize
    \/ LnReadMax
    \/ LnReturn

\* One goroutine calling Len while another one makes the mutating calls, Resize among
\* them, one after the other.
SpecLen == Init /\ [][NextLen]_vars

----------------------------------------------------------------------------
\* Properties of the calls of one goroutine (checked under Spec).

\* A Resize with a positive argument has just returned.
Resized == last.op = "Resize" /\ ~last.err

\* C1: in every reachable state Len() is at least 0 and at most the capacity maxSize.
C1_LenWithinCapacity == 0 <= LenOp(lru) /\ LenOp(lru) <= maxSize

\* C2: while every mutating call since construction was a Set, Len() equals the
\* smaller of the capacity and the number of distinct keys set so far.
C2_SetOnlyLen ==
    hist.onlySets => LenOp(lru) = Min(maxSize, Cardinality(hist.keys))

\* C2 witness: more distinct keys were set than the capacity holds, and Len() is clamped.
C2_Witness ==
    /\ hist.onlySets
    /\ last.op = "Set"
    /\ maxSize >= 2
    /\ Cardinality(hist.keys) > maxSize
    /\ newCache # EmptyMap

\* C3: right after Set(k, v) returns, Peek(k) and Get(k) both return (v, true).
C3_SetThenPeekGet ==
    last.op = "Set" =>
        /\ Peek(lru, last.key) = <<last.val, TRUE>>
        /\ Get(lru, last.key).val = last.val
        /\ Get(lru, last.key).found

\* C3 witness: a Set on a cache of capacity 1 rotated, and the key sits in oldCache only.
C3_Witness ==
    /\ last.op = "Set"
    /\ maxSize = 1
    /\ last.key \in DOMAIN oldCache
    /\ last.key \notin DOMAIN newCache
    /\ BagCardinality(last.ev) = 1

\* C4: Remove(k) of a present key returns true, notifies the callback exactly once,
\* for k, and leaves Has(k) false and Peek(k) not found.
C4_RemovePresent ==
    [][\A k \in KeySet :
        (last'.op = "Remove" /\ last'.key = k /\ Has(lru, k)) =>
            /\ last'.found
            /\ onEvictedCB =>
                  /\ BagCardinality(last'.ev) = 1
                  /\ \A p \in BagToSet(last'.ev) : p[1] = k
            /\ ~Has(lru', k)
            /\ ~Peek(lru', k)[2]]_vars

\* C5: a Resize(n) with n >= Len() returns 0, notifies nothing and leaves Peek(k)
\* as it was for every key k.
C5_GrowResizeKeepsPeek ==
    [][(last'.op = "Resize" /\ ~last'.err /\ last'.n >= LenOp(lru)) =>
            /\ last'.ret = 0
            /\ last'.ev = EmptyBag
            /\ \A k \in KeySet : Peek(lru', k) = Peek(lru, k)]_vars

\* C6: after a Resize(n) with 0 < n < Len(), newCache is empty, size is 0, maxSize is n
\* and oldCache holds exactly n entries, so Len() and the number of Keys() are n.
C6_ShrinkLeavesN ==
    (Resized /\ 0 < last.n /\ last.n < last.preLen) =>
        /\ newCache = EmptyMap
        /\ size = 0
        /\ maxSize = last.n
        /\ Cardinality(DOMAIN oldCache) = last.n
        /\ LenOp(lru) = last.n
        /\ BagCardinality(Keys(lru)) = last.n

\* C7: Resize(n), n > 0, returns max(0, L - n) for L = Len() before the call, and an
\* installed callback is invoked exactly that many times, each time for a different
\* key that was present before the call and is absent after it.
C7_ResizeEvictionCount ==
    [][(last'.op = "Resize" /\ ~last'.err) =>
            /\ last'.ret = Max(0, LenOp(lru) - last'.n)
            /\ onEvictedCB =>
                  /\ BagCardinality(last'.ev) = last'.ret
                  /\ Cardinality({p[1] : p \in BagToSet(last'.ev)}) = last'.ret
                  /\ \A p \in BagToSet(last'.ev) :
                        Has(lru, p[1]) /\ Peek(lru, p[1])[1] = p[2] /\ ~Has(lru', p[1])]_vars

\* C7 witness: a shrinking Resize evicted two entries and notified both.
C7_Witness ==
    /\ Resized
    /\ onEvictedCB
    /\ last.ret = 2
    /\ BagCardinality(last.ev) = 2
    /\ oldCache # EmptyMap

\* C8 as stated: Resize(n) with n = Len() takes the merge path: oldCache ends empty,
\* newCache holds every entry that was present, size is the previous Len(), maxSize
\* is n and 0 is returned.
C8_EqualResizeMerges ==
    [][(last'.op = "Resize" /\ ~last'.err /\ last'.n = LenOp(lru)) =>
            /\ oldCache' = EmptyMap
            /\ \A k \in KeySet :
                  Has(lru, k) => k \in DOMAIN newCache' /\ newCache'[k] = Peek(lru, k)[1]
            /\ size' = LenOp(lru)
            /\ maxSize' = last'.n
            /\ last'.ret = 0]_vars

\* C8 amended: Resize(n) with n = Len() takes the partition path with nothing to
\* evict: newCache ends empty, oldCache holds every entry that was present (with
\* newCache's value for a key held in both), size is 0, maxSize is n, nothing is
\* notified and 0 is returned.
C8_EqualResizePartitions ==
    [][(last'.op = "Resize" /\ ~last'.err /\ last'.n = LenOp(lru)) =>
            /\ newCache' = EmptyMap
            /\ \A k \in KeySet :
                  /\ (k \in DOMAIN oldCache') = Has(lru, k)
                  /\ Has(lru, k) => oldCache'[k] = Peek(lru, k)[1]
            /\ size' = 0
            /\ maxSize' = last'.n
            /\ last'.ev = EmptyBag
            /\ last'.ret = 0]_vars

\* C8 witness: a Resize to exactly the current Len() of a cache holding entries.
C8_Witness ==
    /\ Resized
    /\ last.n = last.preLen
    /\ last.n >= 2
    /\ Cardinality(DOMAIN oldCache) >= 2
    /\ newCache = EmptyMap

\* C11: when Set, Get, Remove or Resize returns, no key the callback was invoked
\* with during the call is present in either map.
C11_NotifiedKeysGone ==
    last.op \in {"Set", "Get", "Remove", "Resize"} =>
        \A p \in BagToSet(last.ev) : ~Has(lru, p[1])

\* C12 as stated: in every reachable state Len() equals the number of keys Keys() returns.
C12_LenIsKeyCount == LenOp(lru) = BagCardinality(Keys(lru))

\* C12 amended: in every reachable state Len() is at most the number of keys Keys()
\* returns.
C12_LenAtMostKeyCount == LenOp(lru) <= BagCardinality(Keys(lru))

\* C12 witness: more keys are held than the capacity, and Len() reports the capacity.
C12_Witness ==
    /\ last.op = "Len"
    /\ size > 0
    /\ BagCardinality(Keys(lru)) > maxSize
    /\ LenOp(lru) = maxSize

\* C13 as stated: Get(k) of a key held in oldCache only returns (value, true) and
\* leaves k in newCache with that value and not in oldCache; Peek(k) then returns
\* (value, true).
C13_GetPromotesToNew ==
    [][\A k \in KeySet :
        (last'.op = "Get" /\ last'.key = k
            /\ k \in DOMAIN oldCache /\ k \notin DOMAIN newCache) =>
            /\ last'.found /\ last'.val = oldCache[k]
            /\ k \in DOMAIN newCache' /\ newCache'[k] = oldCache[k]
            /\ k \notin DOMAIN oldCache'
            /\ Peek(lru', k) = <<oldCache[k], TRUE>>]_vars

\* C13 amended: Get(k) of a key held in oldCache only returns (value, true) and a
\* Peek(k) then returns (value, true). If the promotion leaves size + 1 below maxSize,
\* k is then in newCache with that value and not in oldCache; otherwise the promotion
\* rotates, and k is in oldCache with that value and newCache is empty.
C13_GetPromotesOrRotates ==
    [][\A k \in KeySet :
        (last'.op = "Get" /\ last'.key = k
            /\ k \in DOMAIN oldCache /\ k \notin DOMAIN newCache) =>
            /\ last'.found /\ last'.val = oldCache[k]
            /\ Peek(lru', k) = <<oldCache[k], TRUE>>
            /\ IF size + 1 < maxSize
               THEN /\ k \in DOMAIN newCache' /\ newCache'[k] = oldCache[k]
                    /\ k \notin DOMAIN oldCache'
               ELSE /\ k \in DOMAIN oldCache' /\ oldCache'[k] = oldCache[k]
                    /\ newCache' = EmptyMap]_vars

\* C13 witness: a Get promoted a key to newCache without rotating, next to an entry
\* that stayed in oldCache.
C13_Witness ==
    /\ last.op = "Get"
    /\ last.found
    /\ last.key \in DOMAIN newCache
    /\ last.key \notin DOMAIN oldCache
    /\ oldCache # EmptyMap
    /\ size = 1

\* The first n keys set, and the pairs they were set with.
FirstKeys(n) == {hist.order[i] : i \in 1..n}

\* C14: on a fresh cache of capacity C with a callback, filled by Set calls of pairwise
\* distinct keys: while fewer than 2C keys were set, the last Set notified nothing and
\* every key set is found by Peek and Has; the C-th Set rotated; the 2C-th Set notified
\* exactly the first C keys, once each.
C14_FillNotifiesAtTwiceCapacity ==
    (hist.distinct /\ onEvictedCB /\ last.op = "Set") =>
        /\ Len(hist.order) < 2 * maxSize =>
              /\ last.ev = EmptyBag
              /\ \A k \in hist.keys : Has(lru, k) /\ Peek(lru, k) = <<FillVal(k), TRUE>>
        /\ Len(hist.order) = maxSize =>
              /\ newCache = EmptyMap
              /\ DOMAIN oldCache = FirstKeys(maxSize)
        /\ Len(hist.order) = 2 * maxSize =>
              last.ev = SetToBag({<<k, FillVal(k)>> : k \in FirstKeys(maxSize)})

\* C14 witness: the sixth distinct Set on a cache of capacity 3 notified three entries.
C14_Witness ==
    /\ hist.distinct
    /\ onEvictedCB
    /\ last.op = "Set"
    /\ maxSize = 3
    /\ Len(hist.order) = 6
    /\ BagCardinality(last.ev) = 3

\* The fields of the cache are what they were.
SameCache == maxSize' = maxSize /\ size' = size /\ oldCache' = oldCache /\ newCache' = newCache

\* C15: Has, Peek, Len, Keys and Vals leave both maps, size and maxSize unchanged (so
\* they neither promote nor rotate) and never invoke the callback.
C15_ObserversChangeNothing ==
    [][last'.op \in {"Has", "Peek", "Len", "Keys", "Vals"} =>
            SameCache /\ last'.ev = EmptyBag]_vars

\* C15 witness: Peek returned on a cache where a Get could promote and rotate: a key
\* sits in oldCache only and size is one below maxSize.
C15_Witness ==
    /\ last.op = "Peek"
    /\ onEvictedCB
    /\ Unshadowed(lru) # {}
    /\ size + 1 = maxSize
    /\ newCache # EmptyMap

\* C16: the constructor returns an error and no store exactly when its capacity
\* argument is <= 0; Resize(n) with n <= 0 returns (0, error), leaves both maps, size
\* and maxSize as they were and invokes no callback.
C16_InvalidCapacity ==
    /\ [](last.op = "New" =>
            /\ last.err = (last.n <= 0)
            /\ last.err => lru = NilStore
            /\ ~last.err => (HasStore /\ maxSize = last.n))
    /\ [][(last'.op = "Resize" /\ last'.n <= 0) =>
            /\ last'.err
            /\ last'.ret = 0
            /\ last'.ev = EmptyBag
            /\ SameCache]_vars

\* C16 witness: Resize(-1) returned its error on a cache holding entries in both maps.
C16_Witness ==
    /\ last.op = "Resize"
    /\ last.n = -1
    /\ last.err
    /\ onEvictedCB
    /\ oldCache # EmptyMap
    /\ newCache # EmptyMap

\* C17: Clear() invokes an installed callback once for every entry of oldCache and once
\* for every entry of newCache, and leaves both maps empty and size 0, so that Len()
\* is 0, Keys() and Vals() are empty and Has(k) is false for every key; maxSize is
\* unchanged.
C17_ClearEmptiesAndNotifiesAll ==
    [][last'.op = "Clear" =>
            /\ \A k \in KeySet, v \in Vals :
                  CopiesIn(<<k, v>>, last'.ev) =
                      IF onEvictedCB
                      THEN (IF k \in DOMAIN oldCache /\ oldCache[k] = v THEN 1 ELSE 0)
                           + (IF k \in DOMAIN newCache /\ newCache[k] = v THEN 1 ELSE 0)
                      ELSE 0
            /\ oldCache' = EmptyMap
            /\ newCache' = EmptyMap
            /\ size' = 0
            /\ LenOp(lru') = 0
            /\ Keys(lru') = EmptyBag
            /\ ValsOp(lru') = EmptyBag
            /\ \A k \in KeySet : ~Has(lru', k)
            /\ maxSize' = maxSize]_vars

\* C17 witness: Clear notified twice for a key held in both maps with the same value.
C17_Witness ==
    /\ last.op = "Clear"
    /\ onEvictedCB
    /\ \E p \in BagToSet(last.ev) : CopiesIn(p, last.ev) = 2
    /\ BagCardinality(last.ev) >= 3

\* C18: in every reachable state Keys() lists each present key exactly once (and no
\* other key), Vals() is as long as Keys() and holds, for each present key, the value
\* Peek returns for it (newCache's for a key held in both maps), and every key of
\* Keys() satisfies Has and is found by Peek.
C18_KeysAndValsDistinct ==
    /\ \A k \in KeySet : CopiesIn(k, Keys(lru)) = IF Has(lru, k) THEN 1 ELSE 0
    /\ BagToSet(Keys(lru)) \subseteq KeySet
    /\ BagCardinality(ValsOp(lru)) = BagCardinality(Keys(lru))
    /\ \A v \in Vals \cup BagToSet(ValsOp(lru)) :
          CopiesIn(v, ValsOp(lru)) =
              Cardinality({k \in KeySet : Has(lru, k) /\ Peek(lru, k)[1] = v})
    /\ \A k \in BagToSet(Keys(lru)) : Has(lru, k) /\ Peek(lru, k)[2]

\* C18 witness: Keys returned while a key is held in both maps with different values
\* next to a key held in oldCache only.
C18_Witness ==
    /\ last.op = "Keys"
    /\ \E k \in DOMAIN oldCache : k \in DOMAIN newCache /\ oldCache[k] # newCache[k]
    /\ Unshadowed(lru) # {}

\* C19: Remove(k) of a key with Has(k) false returns false, invokes no callback and
\* leaves both maps, size and maxSize unchanged.
C19_RemoveAbsent ==
    [][(last'.op = "Remove" /\ ~Has(lru, last'.key)) =>
            /\ ~last'.found
            /\ last'.ev = EmptyBag
            /\ SameCache]_vars

\* C19 witness: Remove returned false on a cache with a callback holding other keys in
\* both maps.
C19_Witness ==
    /\ last.op = "Remove"
    /\ ~last.found
    /\ onEvictedCB
    /\ oldCache # EmptyMap
    /\ newCache # EmptyMap
    /\ ~Has(lru, last.key)

\* The step is Set(k, v) of a key newCache does not hold, or Get(k) of a key held in
\* oldCache only: the calls that insert into newCache.
Inserts ==
    \/ last'.op = "Set" /\ last'.key \notin DOMAIN newCache
    \/ last'.op = "Get" /\ last'.key \in Unshadowed(lru)

\* The value an inserting step inserts, and oldCache when its update runs (Get has
\* deleted the promoted key from it).
Inserted == IF last'.op = "Set" THEN last'.val ELSE oldCache[last'.key]

Retiring == IF last'.op = "Get" THEN DelMap(oldCache, last'.key) ELSE oldCache

\* C20: a call rotates exactly when it inserts into newCache and the insertion brings
\* size to maxSize; the rotation notifies every entry oldCache then holds once, makes
\* oldCache the copy of newCache with the inserted entry, empties newCache and zeroes
\* size; a Set of a key newCache holds only overwrites its value: no change of size,
\* no rotation, no notification.
C20_RotationExactlyAtCapacity ==
    [][/\ last'.rot = (Inserts /\ size + 1 = maxSize)
       /\ last'.rot =>
             /\ last'.ev = Notify(lru, MapBag(Retiring))
             /\ oldCache' = PutMap(newCache, last'.key, Inserted)
             /\ newCache' = EmptyMap
             /\ size' = 0
             /\ maxSize' = maxSize
       /\ (last'.op = "Set" /\ last'.key \in DOMAIN newCache) =>
             /\ newCache' = PutMap(newCache, last'.key, last'.val)
             /\ oldCache' = oldCache
             /\ size' = size
             /\ maxSize' = maxSize
             /\ last'.ev = EmptyBag]_vars

\* C20 witness: a Get promotion rotated a cache of capacity 3 and notified what
\* oldCache still held.
C20_Witness ==
    /\ last.op = "Get"
    /\ last.rot
    /\ maxSize = 3
    /\ Cardinality(DOMAIN oldCache) = 3
    /\ BagCardinality(last.ev) >= 1

\* C21: in every state the calls of one goroutine reach, size is the number of keys
\* of newCache, and 0 <= size < maxSize.
C21_SizeCountsNewCache ==
    HasStore =>
        /\ size = Cardinality(DOMAIN newCache)
        /\ 0 <= size
        /\ size < maxSize

\* C22: with a callback installed, every key that Has finds before a Set, Get, Remove,
\* Clear or Resize and not after it was handed to the callback during the call.
C22_NoSilentLoss ==
    [][(onEvictedCB /\ last'.op \in {"Set", "Get", "Remove", "Clear", "Resize"}) =>
            \A k \in KeySet :
                (Has(lru, k) /\ ~Has(lru', k)) =>
                    \E p \in BagToSet(last'.ev) : p[1] = k]_vars

\* C22 witness: a shrinking Resize with a callback evicted one entry and kept two.
C22_Witness ==
    /\ Resized
    /\ onEvictedCB
    /\ last.ret = 1
    /\ BagCardinality(last.ev) = 1
    /\ Cardinality(DOMAIN oldCache) = 2
    /\ \A p \in BagToSet(last.ev) : ~Has(lru, p[1])

\* C23: after every call of a run of Set and Get calls, each of the min(maxSize, number
\* of keys touched) most recently touched keys is present, and a touched key that is
\* no longer present has seen at least maxSize other keys inserted or promoted since
\* its last touch.
C23_RecentKeysPresent ==
    HasStore =>
        /\ \A i \in 1..Min(maxSize, Len(hist.touched)) : Has(lru, hist.touched[i])
        /\ \A i \in 1..Len(hist.touched) :
              ~Has(lru, hist.touched[i]) =>
                  Cardinality(hist.since[hist.touched[i]]) >= maxSize

\* C23 witness: on a cache of capacity 2 a Get promoted a key and the rotation it
\* caused discarded the least recently touched of three keys.
C23_Witness ==
    /\ maxSize = 2
    /\ last.op = "Get"
    /\ last.rot
    /\ Len(hist.touched) = 3
    /\ hist.touched[1] = last.key
    /\ Has(lru, hist.touched[2])
    /\ ~Has(lru, hist.touched[3])

----------------------------------------------------------------------------
\* Properties of goroutines running side by side (checked under SpecResize and SpecLen).

\* C9: a Resize leaves what a lock held from its first read to its last write would
\* leave. In particular, of the call another goroutine completed last while the
\* Resize was in progress: a key that was Set is still held or is among the pairs
\* the Resize evicted, and a Clear leaves the cache empty.
C9_ResizeAtomic ==
    rz.pc = "done" =>
        /\ rz.after.op = "Set" =>
              \/ Has(lru, rz.after.key)
              \/ \E p \in BagToSet(rz.evicted) : p[1] = rz.after.key
        /\ rz.after.op = "Clear" => (oldCache = EmptyMap /\ newCache = EmptyMap)

\* C24: whatever other goroutines do while a shrinking Resize is in progress, the
\* number of entries Resize evicts is at most the number of entries it collected:
\* allPairs[i] is never indexed past the end (no panic) and the count returned is at
\* most len(allPairs).
C24_ResizeStaysInRange ==
    /\ rz.pc # "panic"
    /\ rz.pc = "done" => rz.ret <= Len(rz.allPairs)

\* C10: the value Len returns is the Len() of one of the states the cache was in
\* between the call and the return.
C10_LenOfOneState == ln.pc = "done" => ln.ret \in ln.cands

====
